---- MODULE Spec2Model ----
(***************************************************************************)
(* Model of src/src/deque.rs: a doubly-linked deque whose nodes live in an *)
(* external index map (slab) and are addressed by usize handles; handle 0  *)
(* is the "no node" sentinel.                                              *)
(*                                                                         *)
(* Every method of Deque is an operator that takes the receiver (self),    *)
(* the arguments and the index map, and yields the receiver, the index map *)
(* and the returned value after the call.  The handle that                 *)
(* index_map.insert issues is an input of the operator: the action that    *)
(* calls it draws it from the handles that are vacant, so that every       *)
(* allocation order, slot reuse included, is covered.                      *)
(*                                                                         *)
(* usize arithmetic is kept at a (scaled-down) width of UsizeBits bits.    *)
(* A build either checks overflow (`self.len -= 1` at 0 panics) or wraps;  *)
(* the build is fixed at Init (overflow_checks).                           *)
(***************************************************************************)
EXTENDS Integers, Sequences, FiniteSets, TLC

\* Bounds of the model.
MaxHandle == 3
UsizeBits == 3

Handles == 1..MaxHandle
\* T is a type parameter without bounds: the deque stores and returns
\* elements and never inspects them.  Two values are enough to tell any two
\* positions of a sequence apart.
Elems == {1, 2}
Deques == {1, 2}
UsizeMod == 2^UsizeBits

VARIABLES
  deq,              \* deq[q] = [first, last, len] of deque q
  map,              \* the shared index map: handle -> slot
  op,               \* the last call: [name, q, elem, index, before]
  ret,              \* what the last call returned: [kind, val]
  stopped,          \* the program has panicked / faulted / broken a contract
  overflow_checks,  \* the build checks integer overflow (debug) or wraps
  it,               \* the Iter created by iter(): its `next` field, whether it
                    \* is alive (borrows the index map), what it yielded, and
                    \* what the last exhausted Iter yielded (prev) and how
                    \* many Iters were exhausted (full, counted up to 2)
                    \* since the last call that takes the deque mutably
  hist              \* history of one handle: a handle that was removed
                    \* (stale, 0 if none is followed) with its element (x),
                    \* whether it was issued again since (reissued) and for
                    \* which element (y)

vars == <<deq, map, op, ret, stopped, overflow_checks, it, hist>>

----------------------------------------------------------------------------
\* Node<T> and the index map collaborator

Node(elem, pre, next) == [live |-> TRUE, elem |-> elem, pre |-> pre, next |-> next]

Vacant == [live |-> FALSE, elem |-> 0, pre |-> 0, next |-> 0]

contains(m, index) == index \in DOMAIN m /\ m[index].live

insert(m, index, node) == [m EXCEPT ![index] = node]

im_remove(m, index) == [m EXCEPT ![index] = Vacant]

Live(m) == {h \in Handles : contains(m, h)}

\* Returned values
Handle(i) == [kind |-> "Handle", val |-> i]
Some(x) == [kind |-> "Some", val |-> x]
None == [kind |-> "None", val |-> 0]
Value(x) == [kind |-> "Value", val |-> x]
Unit == [kind |-> "Unit", val |-> 0]
\* `Panic`: overflow check of the build; `MapFault`: index_map.remove of a
\* handle that is not live (collaborator-defined); `UB`: get_unchecked(_mut)
\* of a handle that is not live.
FaultKinds == {"Panic", "MapFault", "UB"}
Fault(self, m, kind) == [self |-> self, map |-> m, ret |-> [kind |-> kind, val |-> 0]]
Result(self, m, r) == [self |-> self, map |-> m, ret |-> r]

----------------------------------------------------------------------------
\* Deque

new == [first |-> 0, last |-> 0, len |-> 0]

get_first(self) == self.first

get_last(self) == self.last

len(self) == self.len

\* push_back that creates the node of a non-empty deque with pre = 0.
push_back_no_pre(self, elem, index, m) ==
  IF self.len + 1 >= UsizeMod /\ overflow_checks THEN Fault(self, m, "Panic")
  ELSE
    LET s1 == [self EXCEPT !.len = (self.len + 1) % UsizeMod] IN
    IF s1.last = 0
    THEN Result([s1 EXCEPT !.last = index, !.first = index],
                insert(m, index, Node(elem, 0, 0)), Handle(index))
    ELSE
      LET m1 == insert(m, index, Node(elem, 0, 0)) IN
      IF ~contains(m1, s1.last) THEN Fault(s1, m1, "UB")
      ELSE Result([s1 EXCEPT !.last = index],
                  [m1 EXCEPT ![s1.last].next = index], Handle(index))

push_back(self, elem, index, m) ==
  IF self.len + 1 >= UsizeMod /\ overflow_checks THEN Fault(self, m, "Panic")
  ELSE
    LET s1 == [self EXCEPT !.len = (self.len + 1) % UsizeMod] IN
    IF s1.last = 0
    THEN Result([s1 EXCEPT !.last = index, !.first = index],
                insert(m, index, Node(elem, 0, 0)), Handle(index))
    ELSE
      LET m1 == insert(m, index, Node(elem, s1.last, 0)) IN
      IF ~contains(m1, s1.last) THEN Fault(s1, m1, "UB")
      ELSE Result([s1 EXCEPT !.last = index],
                  [m1 EXCEPT ![s1.last].next = index], Handle(index))

\* push_front that passes pre and next to Node::new in the wrong order.
push_front_swapped(self, elem, index, m) ==
  IF self.len + 1 >= UsizeMod /\ overflow_checks THEN Fault(self, m, "Panic")
  ELSE
    LET s1 == [self EXCEPT !.len = (self.len + 1) % UsizeMod] IN
    IF s1.first = 0
    THEN Result([s1 EXCEPT !.last = index, !.first = index],
                insert(m, index, Node(elem, 0, 0)), Handle(index))
    ELSE
      LET m1 == insert(m, index, Node(elem, s1.first, 0)) IN
      IF ~contains(m1, s1.first) THEN Fault(s1, m1, "UB")
      ELSE Result([s1 EXCEPT !.first = index],
                  [m1 EXCEPT ![s1.first].pre = index], Handle(index))

push_front(self, elem, index, m) ==
  IF self.len + 1 >= UsizeMod /\ overflow_checks THEN Fault(self, m, "Panic")
  ELSE
    LET s1 == [self EXCEPT !.len = (self.len + 1) % UsizeMod] IN
    IF s1.first = 0
    THEN Result([s1 EXCEPT !.last = index, !.first = index],
                insert(m, index, Node(elem, 0, 0)), Handle(index))
    ELSE
      LET m1 == insert(m, index, Node(elem, 0, s1.first)) IN
      IF ~contains(m1, s1.first) THEN Fault(s1, m1, "UB")
      ELSE Result([s1 EXCEPT !.first = index],
                  [m1 EXCEPT ![s1.first].pre = index], Handle(index))

\* push_to_back(elem, index, index_map): `index` is the anchor, `i` the
\* handle issued by index_map.insert.
\* push_to_back that forgets `get_unchecked_mut(next).pre = i`.
\* push_to_back that links the new node back to the anchor: `i.next = index`.
push_to_back_cycle(self, elem, index, i, m) ==
  IF self.len + 1 >= UsizeMod /\ overflow_checks THEN Fault(self, m, "Panic")
  ELSE
    LET s1 == [self EXCEPT !.len = (self.len + 1) % UsizeMod]
        m1 == insert(m, i, Node(elem, index, 0))
    IN
    IF ~contains(m1, index) THEN Fault(s1, m1, "UB")
    ELSE
      LET next == m1[index].next
          m2 == [m1 EXCEPT ![index].next = i]
      IN
      IF next = 0 THEN Result([s1 EXCEPT !.last = i], m2, Handle(i))
      ELSE IF ~contains(m2, next) THEN Fault(s1, m2, "UB")
      ELSE Result(s1, [m2 EXCEPT ![next].pre = i, ![i].next = index], Handle(i))

push_to_back_no_pre(self, elem, index, i, m) ==
  IF self.len + 1 >= UsizeMod /\ overflow_checks THEN Fault(self, m, "Panic")
  ELSE
    LET s1 == [self EXCEPT !.len = (self.len + 1) % UsizeMod]
        m1 == insert(m, i, Node(elem, index, 0))
    IN
    IF ~contains(m1, index) THEN Fault(s1, m1, "UB")
    ELSE
      LET next == m1[index].next
          m2 == [m1 EXCEPT ![index].next = i]
      IN
      IF next = 0 THEN Result([s1 EXCEPT !.last = i], m2, Handle(i))
      ELSE IF ~contains(m2, next) THEN Fault(s1, m2, "UB")
      ELSE Result(s1, [m2 EXCEPT ![i].next = next], Handle(i))

\* push_to_back that forgets `get_unchecked_mut(i).next = next`.
push_to_back_no_next(self, elem, index, i, m) ==
  IF self.len + 1 >= UsizeMod /\ overflow_checks THEN Fault(self, m, "Panic")
  ELSE
    LET s1 == [self EXCEPT !.len = (self.len + 1) % UsizeMod]
        m1 == insert(m, i, Node(elem, index, 0))
    IN
    IF ~contains(m1, index) THEN Fault(s1, m1, "UB")
    ELSE
      LET next == m1[index].next
          m2 == [m1 EXCEPT ![index].next = i]
      IN
      IF next = 0 THEN Result([s1 EXCEPT !.last = i], m2, Handle(i))
      ELSE IF ~contains(m2, next) THEN Fault(s1, m2, "UB")
      ELSE Result(s1, [m2 EXCEPT ![next].pre = i], Handle(i))

push_to_back(self, elem, index, i, m) ==
  IF self.len + 1 >= UsizeMod /\ overflow_checks THEN Fault(self, m, "Panic")
  ELSE
    LET s1 == [self EXCEPT !.len = (self.len + 1) % UsizeMod]
        m1 == insert(m, i, Node(elem, index, 0))
    IN
    IF ~contains(m1, index) THEN Fault(s1, m1, "UB")
    ELSE
      LET next == m1[index].next
          m2 == [m1 EXCEPT ![index].next = i]
      IN
      IF next = 0 THEN Result([s1 EXCEPT !.last = i], m2, Handle(i))
      ELSE IF ~contains(m2, next) THEN Fault(s1, m2, "UB")
      ELSE Result(s1, [m2 EXCEPT ![next].pre = i, ![i].next = next], Handle(i))

\* push_to_front that forgets `self.first = i` when the anchor is the head.
push_to_front_keeps_first(self, elem, index, i, m) ==
  IF self.len + 1 >= UsizeMod /\ overflow_checks THEN Fault(self, m, "Panic")
  ELSE
    LET s1 == [self EXCEPT !.len = (self.len + 1) % UsizeMod]
        m1 == insert(m, i, Node(elem, 0, index))
    IN
    IF ~contains(m1, index) THEN Fault(s1, m1, "UB")
    ELSE
      LET pre == m1[index].pre
          m2 == [m1 EXCEPT ![index].pre = i]
      IN
      IF pre = 0 THEN Result(s1, m2, Handle(i))
      ELSE IF ~contains(m2, pre) THEN Fault(s1, m2, "UB")
      ELSE Result(s1, [m2 EXCEPT ![pre].next = i, ![i].pre = pre], Handle(i))

push_to_front(self, elem, index, i, m) ==
  IF self.len + 1 >= UsizeMod /\ overflow_checks THEN Fault(self, m, "Panic")
  ELSE
    LET s1 == [self EXCEPT !.len = (self.len + 1) % UsizeMod]
        m1 == insert(m, i, Node(elem, 0, index))
    IN
    IF ~contains(m1, index) THEN Fault(s1, m1, "UB")
    ELSE
      LET pre == m1[index].pre
          m2 == [m1 EXCEPT ![index].pre = i]
      IN
      IF pre = 0 THEN Result([s1 EXCEPT !.first = i], m2, Handle(i))
      ELSE IF ~contains(m2, pre) THEN Fault(s1, m2, "UB")
      ELSE Result(s1, [m2 EXCEPT ![pre].next = i, ![i].pre = pre], Handle(i))

\* pop_front_unchecked that forgets `self.last = 0` when the deque empties.
pop_front_unchecked_keeps_last(self, m) ==
  IF self.len = 0 /\ overflow_checks THEN Fault(self, m, "Panic")
  ELSE
    LET s1 == [self EXCEPT !.len = (self.len - 1) % UsizeMod] IN
    IF ~contains(m, s1.first) THEN Fault(s1, m, "MapFault")
    ELSE
      LET node == m[s1.first]
          m1 == im_remove(m, s1.first)
          s2 == [s1 EXCEPT !.first = node.next]
      IN
      IF s2.first = 0 THEN Result(s2, m1, Value(node.elem))
      ELSE IF ~contains(m1, s2.first) THEN Fault(s2, m1, "UB")
      ELSE Result(s2, [m1 EXCEPT ![s2.first].pre = 0], Value(node.elem))

\* pop_front_unchecked that forgets to clear the pre link of the new head.
pop_front_unchecked_keeps_pre(self, m) ==
  IF self.len = 0 /\ overflow_checks THEN Fault(self, m, "Panic")
  ELSE
    LET s1 == [self EXCEPT !.len = (self.len - 1) % UsizeMod] IN
    IF ~contains(m, s1.first) THEN Fault(s1, m, "MapFault")
    ELSE
      LET node == m[s1.first]
          m1 == im_remove(m, s1.first)
          s2 == [s1 EXCEPT !.first = node.next]
      IN
      IF s2.first = 0 THEN Result([s2 EXCEPT !.last = 0], m1, Value(node.elem))
      ELSE IF ~contains(m1, s2.first) THEN Fault(s2, m1, "UB")
      ELSE Result(s2, m1, Value(node.elem))

\* pop_front_unchecked that asks the index map first and decrements len
\* afterwards.
pop_front_unchecked_map_first(self, m) ==
  IF ~contains(m, self.first) THEN Fault(self, m, "MapFault")
  ELSE IF self.len = 0 /\ overflow_checks THEN Fault(self, im_remove(m, self.first), "Panic")
  ELSE
    LET s1 == [self EXCEPT !.len = (self.len - 1) % UsizeMod]
        node == m[s1.first]
        m1 == im_remove(m, s1.first)
        s2 == [s1 EXCEPT !.first = node.next]
    IN
    IF s2.first = 0 THEN Result([s2 EXCEPT !.last = 0], m1, Value(node.elem))
    ELSE IF ~contains(m1, s2.first) THEN Fault(s2, m1, "UB")
    ELSE Result(s2, [m1 EXCEPT ![s2.first].pre = 0], Value(node.elem))

pop_front_unchecked(self, m) ==
  IF self.len = 0 /\ overflow_checks THEN Fault(self, m, "Panic")
  ELSE
    LET s1 == [self EXCEPT !.len = (self.len - 1) % UsizeMod] IN
    IF ~contains(m, s1.first) THEN Fault(s1, m, "MapFault")
    ELSE
      LET node == m[s1.first]
          m1 == im_remove(m, s1.first)
          s2 == [s1 EXCEPT !.first = node.next]
      IN
      IF s2.first = 0 THEN Result([s2 EXCEPT !.last = 0], m1, Value(node.elem))
      ELSE IF ~contains(m1, s2.first) THEN Fault(s2, m1, "UB")
      ELSE Result(s2, [m1 EXCEPT ![s2.first].pre = 0], Value(node.elem))

pop_front(self, m) ==
  IF self.first = 0 THEN Result(self, m, None)
  ELSE
    LET r == pop_front_unchecked(self, m) IN
    IF r.ret.kind = "Value" THEN Result(r.self, r.map, Some(r.ret.val)) ELSE r

\* pop_back_unchecked that forgets to reset the next link of the new tail.
pop_back_unchecked_keeps_next(self, m) ==
  IF self.len = 0 /\ overflow_checks THEN Fault(self, m, "Panic")
  ELSE
    LET s1 == [self EXCEPT !.len = (self.len - 1) % UsizeMod] IN
    IF ~contains(m, s1.last) THEN Fault(s1, m, "MapFault")
    ELSE
      LET node == m[s1.last]
          m1 == im_remove(m, s1.last)
          s2 == [s1 EXCEPT !.last = node.pre]
      IN
      IF s2.last = 0 THEN Result([s2 EXCEPT !.first = 0], m1, Value(node.elem))
      ELSE IF ~contains(m1, s2.last) THEN Fault(s2, m1, "UB")
      ELSE Result(s2, m1, Value(node.elem))

pop_back_unchecked(self, m) ==
  IF self.len = 0 /\ overflow_checks THEN Fault(self, m, "Panic")
  ELSE
    LET s1 == [self EXCEPT !.len = (self.len - 1) % UsizeMod] IN
    IF ~contains(m, s1.last) THEN Fault(s1, m, "MapFault")
    ELSE
      LET node == m[s1.last]
          m1 == im_remove(m, s1.last)
          s2 == [s1 EXCEPT !.last = node.pre]
      IN
      IF s2.last = 0 THEN Result([s2 EXCEPT !.first = 0], m1, Value(node.elem))
      ELSE IF ~contains(m1, s2.last) THEN Fault(s2, m1, "UB")
      ELSE Result(s2, [m1 EXCEPT ![s2.last].next = 0], Value(node.elem))

\* pop_back without the `self.last == 0` test.
pop_back_no_test(self, m) ==
  LET r == pop_back_unchecked(self, m) IN
  IF r.ret.kind = "Value" THEN Result(r.self, r.map, Some(r.ret.val)) ELSE r

pop_back(self, m) ==
  IF self.last = 0 THEN Result(self, m, None)
  ELSE
    LET r == pop_back_unchecked(self, m) IN
    IF r.ret.kind = "Value" THEN Result(r.self, r.map, Some(r.ret.val)) ELSE r

\* The trailing `self.len -= 1` of remove, after the links are rewritten.
\* remove that forgets `self.len -= 1`.
remove_len_keeps(self, m, node) == Result(self, m, Value(node.elem))

remove_len(self, m, node) ==
  IF self.len = 0 /\ overflow_checks THEN Fault(self, m, "Panic")
  ELSE Result([self EXCEPT !.len = (self.len - 1) % UsizeMod], m, Value(node.elem))

\* remove whose head case `(0, _)` updates self.last instead of self.first.
\* remove whose tail case `(_, 0)` clears the pre field of the predecessor
\* instead of its next field.
remove_tail_wrong_field(self, index, m) ==
  IF ~contains(m, index) THEN Fault(self, m, "MapFault")
  ELSE
    LET node == m[index]
        m1 == im_remove(m, index)
    IN
    IF node.pre = 0 /\ node.next = 0
    THEN remove_len([self EXCEPT !.first = 0, !.last = 0], m1, node)
    ELSE IF node.next = 0
    THEN IF ~contains(m1, node.pre) THEN Fault(self, m1, "UB")
         ELSE remove_len([self EXCEPT !.last = node.pre],
                         [m1 EXCEPT ![node.pre].pre = 0], node)
    ELSE IF node.pre = 0
    THEN IF ~contains(m1, node.next) THEN Fault(self, m1, "UB")
         ELSE remove_len([self EXCEPT !.first = node.next],
                         [m1 EXCEPT ![node.next].pre = 0], node)
    ELSE IF ~contains(m1, node.pre) \/ ~contains(m1, node.next)
         THEN Fault(self, m1, "UB")
         ELSE remove_len(self,
                         [m1 EXCEPT ![node.pre].next = node.next,
                                    ![node.next].pre = node.pre], node)

\* remove whose interior case forgets `next.pre = node.pre`.
remove_interior_half(self, index, m) ==
  IF ~contains(m, index) THEN Fault(self, m, "MapFault")
  ELSE
    LET node == m[index]
        m1 == im_remove(m, index)
    IN
    IF node.pre = 0 /\ node.next = 0
    THEN remove_len([self EXCEPT !.first = 0, !.last = 0], m1, node)
    ELSE IF node.next = 0
    THEN IF ~contains(m1, node.pre) THEN Fault(self, m1, "UB")
         ELSE remove_len([self EXCEPT !.last = node.pre],
                         [m1 EXCEPT ![node.pre].next = 0], node)
    ELSE IF node.pre = 0
    THEN IF ~contains(m1, node.next) THEN Fault(self, m1, "UB")
         ELSE remove_len([self EXCEPT !.first = node.next],
                         [m1 EXCEPT ![node.next].pre = 0], node)
    ELSE IF ~contains(m1, node.pre) \/ ~contains(m1, node.next)
         THEN Fault(self, m1, "UB")
         ELSE remove_len(self, [m1 EXCEPT ![node.pre].next = node.next], node)

remove_head_sets_last(self, index, m) ==
  IF ~contains(m, index) THEN Fault(self, m, "MapFault")
  ELSE
    LET node == m[index]
        m1 == im_remove(m, index)
    IN
    IF node.pre = 0 /\ node.next = 0
    THEN remove_len([self EXCEPT !.first = 0, !.last = 0], m1, node)
    ELSE IF node.next = 0
    THEN IF ~contains(m1, node.pre) THEN Fault(self, m1, "UB")
         ELSE remove_len([self EXCEPT !.last = node.pre],
                         [m1 EXCEPT ![node.pre].next = 0], node)
    ELSE IF node.pre = 0
    THEN IF ~contains(m1, node.next) THEN Fault(self, m1, "UB")
         ELSE remove_len([self EXCEPT !.last = node.next],
                         [m1 EXCEPT ![node.next].pre = 0], node)
    ELSE IF ~contains(m1, node.pre) \/ ~contains(m1, node.next)
         THEN Fault(self, m1, "UB")
         ELSE remove_len(self,
                         [m1 EXCEPT ![node.pre].next = node.next,
                                    ![node.next].pre = node.pre], node)

remove(self, index, m) ==
  IF ~contains(m, index) THEN Fault(self, m, "MapFault")
  ELSE
    LET node == m[index]
        m1 == im_remove(m, index)
    IN
    IF node.pre = 0 /\ node.next = 0
    THEN remove_len([self EXCEPT !.first = 0, !.last = 0], m1, node)
    ELSE IF node.next = 0
    THEN IF ~contains(m1, node.pre) THEN Fault(self, m1, "UB")
         ELSE remove_len([self EXCEPT !.last = node.pre],
                         [m1 EXCEPT ![node.pre].next = 0], node)
    ELSE IF node.pre = 0
    THEN IF ~contains(m1, node.next) THEN Fault(self, m1, "UB")
         ELSE remove_len([self EXCEPT !.first = node.next],
                         [m1 EXCEPT ![node.next].pre = 0], node)
    ELSE IF ~contains(m1, node.pre) \/ ~contains(m1, node.next)
         THEN Fault(self, m1, "UB")
         ELSE remove_len(self,
                         [m1 EXCEPT ![node.pre].next = node.next,
                                    ![node.next].pre = node.pre], node)

\* try_remove that does not ask index_map.contains.
try_remove_no_check(self, index, m) ==
  LET r == remove(self, index, m) IN
  IF r.ret.kind = "Value" THEN Result(r.self, r.map, Some(r.ret.val)) ELSE r

\* try_remove with the arms of the match exchanged.
try_remove_swapped(self, index, m) ==
  IF ~contains(m, index)
  THEN LET r == remove(self, index, m) IN
       IF r.ret.kind = "Value" THEN Result(r.self, r.map, Some(r.ret.val)) ELSE r
  ELSE Result(self, m, None)

try_remove(self, index, m) ==
  IF contains(m, index)
  THEN LET r == remove(self, index, m) IN
       IF r.ret.kind = "Value" THEN Result(r.self, r.map, Some(r.ret.val)) ELSE r
  ELSE Result(self, m, None)

\* The loop of clear with a lookup in place of index_map.remove: the nodes
\* stay in the index map.
RECURSIVE clear_loop_leak(_, _)
clear_loop_leak(self, m) ==
  IF self.first = 0 THEN Result([self EXCEPT !.last = 0], m, Unit)
  ELSE IF ~contains(m, self.first) THEN Fault(self, m, "UB")
  ELSE clear_loop_leak([self EXCEPT !.first = m[self.first].next], m)

RECURSIVE clear_loop(_, _)
clear_loop(self, m) ==
  IF self.first = 0 THEN Result([self EXCEPT !.last = 0], m, Unit)
  ELSE IF ~contains(m, self.first) THEN Fault(self, m, "MapFault")
  ELSE clear_loop([self EXCEPT !.first = m[self.first].next],
                  im_remove(m, self.first))

\* clear that forgets `self.len = 0`.
clear_keeps_len(self, m) == clear_loop(self, m)

clear(self, m) ==
  LET r == clear_loop(self, m) IN
  IF r.ret.kind = "Unit" THEN Result([r.self EXCEPT !.len = 0], r.map, Unit) ELSE r

\* Iter::next driven to exhaustion from handle `next`: the handles it visits.
\* `fuel` bounds the walk (a walk through a cycle or into a vacant slot is
\* cut off).
RECURSIVE Iter_next(_, _, _)
Iter_next(m, next, fuel) ==
  IF next = 0 \/ fuel = 0 \/ ~contains(m, next) THEN <<>>
  ELSE <<next>> \o Iter_next(m, m[next].next, fuel - 1)

\* The handles iter() visits.
iter(self, m) == Iter_next(m, self.first, MaxHandle + 1)

----------------------------------------------------------------------------
\* The program: callers of the deques

Members(q) == {iter(deq[q], map)[k] : k \in 1..Len(iter(deq[q], map))}

\* The record of a call: the method, the deque it is called on, its
\* arguments, and (for reference) the handles of that deque, front to back,
\* at the time of the call.
Call(name, q, elem, index) ==
  [name |-> name, q |-> q, elem |-> elem, index |-> index,
   before |-> IF q \in Deques THEN iter(deq[q], map) ELSE <<>>]

\* No Iter is alive.
NoIter == [active |-> FALSE, next |-> 0, yielded |-> <<>>, done |-> FALSE,
           prev |-> <<>>, full |-> 0]

NoHist(on) == [on |-> on, stale |-> 0, x |-> 0, reissued |-> FALSE, y |-> 0]

\* The histories after a call that leaves the index map as m2.  While no
\* handle is followed, a handle that this call removes may become the one
\* that is followed (with the element it held); once the followed handle enters the map again, it was
\* reissued, for the element of this call.  (Kept only when the history is
\* switched on.)
HistAfter(call, m2) ==
  IF ~hist.on THEN {hist}
  ELSE IF hist.stale = 0
  THEN {hist} \cup {[hist EXCEPT !.stale = h, !.x = map[h].elem] : h \in Live(map) \ Live(m2)}
  ELSE IF hist.stale \in Live(m2) \ Live(map)
  THEN {[hist EXCEPT !.reissued = TRUE, !.y = call.elem]}
  ELSE {hist}

\* The effect of a call on deque q whose outcome is r.  Every such call
\* takes `&mut C`, so it cannot be made while an Iter borrows the index map.
Apply(q, call, r) ==
  /\ ~stopped
  /\ ~it.active
  /\ deq' = [deq EXCEPT ![q] = r.self]
  /\ map' = r.map
  /\ ret' = r.ret
  /\ op' = call
  /\ stopped' = (r.ret.kind \in FaultKinds)
  /\ hist' \in HistAfter(call, r.map)
  /\ it' = [it EXCEPT !.prev = <<>>, !.full = 0]
  /\ UNCHANGED overflow_checks

InitCommon ==
  /\ deq = [q \in Deques |-> new]
  /\ map = [h \in Handles |-> Vacant]
  /\ op = Call("new", 0, 0, 0)
  /\ ret = Unit
  /\ stopped = FALSE
  /\ overflow_checks \in BOOLEAN
  /\ it = NoIter

Init ==
  /\ InitCommon
  /\ hist = NoHist(FALSE)

\* The same program with the history of the handles switched on.
InitHist ==
  /\ InitCommon
  /\ hist = NoHist(TRUE)

DoPushBack(q) ==
  \E elem \in Elems, i \in Handles :
    /\ ~contains(map, i)
    /\ Apply(q, Call("push_back", q, elem, 0), push_back(deq[q], elem, i, map))

DoPushFront(q) ==
  \E elem \in Elems, i \in Handles :
    /\ ~contains(map, i)
    /\ Apply(q, Call("push_front", q, elem, 0), push_front(deq[q], elem, i, map))

\* Precondition: the anchor is a member of the deque.
DoPushToBack(q) ==
  \E elem \in Elems, index \in Members(q), i \in Handles :
    /\ ~contains(map, i)
    /\ Apply(q, Call("push_to_back", q, elem, index),
             push_to_back(deq[q], elem, index, i, map))

DoPushToFront(q) ==
  \E elem \in Elems, index \in Members(q), i \in Handles :
    /\ ~contains(map, i)
    /\ Apply(q, Call("push_to_front", q, elem, index),
             push_to_front(deq[q], elem, index, i, map))

\* Precondition: the deque is not empty.
DoPopFrontUnchecked(q) ==
  /\ deq[q].first # 0
  /\ Apply(q, Call("pop_front_unchecked", q, 0, 0), pop_front_unchecked(deq[q], map))

DoPopBackUnchecked(q) ==
  /\ deq[q].last # 0
  /\ Apply(q, Call("pop_back_unchecked", q, 0, 0), pop_back_unchecked(deq[q], map))

DoPopFront(q) ==
  /\ q \in Deques
  /\ Apply(q, Call("pop_front", q, 0, 0), pop_front(deq[q], map))

DoPopBack(q) ==
  /\ q \in Deques
  /\ Apply(q, Call("pop_back", q, 0, 0), pop_back(deq[q], map))

\* Precondition: the handle is a member of the deque.
DoRemove(q) ==
  \E index \in Members(q) :
    Apply(q, Call("remove", q, 0, index), remove(deq[q], index, map))

\* Any handle that is not live, or a member of the deque.
DoTryRemove(q) ==
  \E index \in 0..MaxHandle :
    /\ ~contains(map, index) \/ index \in Members(q)
    /\ Apply(q, Call("try_remove", q, 0, index), try_remove(deq[q], index, map))

DoClear(q) ==
  /\ q \in Deques
  /\ Apply(q, Call("clear", q, 0, 0), clear(deq[q], map))

\* try_remove on deque q of a live handle that is a member of another deque.
\* This breaks the caller's obligation; the run is not followed further.
DoTryRemoveForeign(q) ==
  \E index \in Handles :
    /\ contains(map, index)
    /\ index \notin Members(q)
    /\ ~stopped
    /\ LET r == try_remove(deq[q], index, map) IN
       /\ deq' = [deq EXCEPT ![q] = r.self]
       /\ map' = r.map
       /\ ret' = r.ret
       /\ op' = Call("try_remove_foreign", q, 0, index)
       /\ stopped' = TRUE
       /\ hist' \in HistAfter(Call("try_remove_foreign", q, 0, index), r.map)
       /\ UNCHANGED <<overflow_checks, it>>

\* pop_front_unchecked / pop_back_unchecked on an empty deque.  This breaks
\* the precondition; the run is not followed further.
DoPopFrontUncheckedEmpty(q) ==
  /\ deq[q].first = 0
  /\ Apply(q, Call("pop_front_unchecked_empty", q, 0, 0), pop_front_unchecked(deq[q], map))

DoPopBackUncheckedEmpty(q) ==
  /\ deq[q].last = 0
  /\ Apply(q, Call("pop_back_unchecked_empty", q, 0, 0), pop_back_unchecked(deq[q], map))

\* iter(): a new Iter that starts at first and borrows the index map.  (One
\* Iter is followed at a time: the caller lets go of it before making another.)
\* iter() that starts at last instead of first.
DoIter_from_last(q) ==
  /\ ~stopped
  /\ ~it.active
  /\ it' = [active |-> TRUE, next |-> deq[q].last, yielded |-> <<>>, done |-> FALSE,
            prev |-> it.prev, full |-> it.full]
  /\ op' = Call("iter", q, 0, 0)
  /\ ret' = Unit
  /\ UNCHANGED <<deq, map, stopped, overflow_checks, hist>>

DoIter(q) ==
  /\ ~stopped
  /\ ~it.active
  /\ it' = [active |-> TRUE, next |-> deq[q].first, yielded |-> <<>>, done |-> FALSE,
            prev |-> it.prev, full |-> it.full]
  /\ op' = Call("iter", q, 0, 0)
  /\ ret' = Unit
  /\ UNCHANGED <<deq, map, stopped, overflow_checks, hist>>

\* Iter::next.
DoIterNext(q) ==
  /\ ~stopped
  /\ it.active
  /\ op' = Call("next", q, 0, 0)
  /\ IF it.next = 0
     THEN /\ ret' = None
          /\ it' = IF it.done THEN it
                   ELSE [it EXCEPT !.done = TRUE, !.prev = it.yielded,
                                   !.full = IF it.full < 2 THEN it.full + 1 ELSE 2]
          /\ UNCHANGED stopped
     ELSE IF ~contains(map, it.next)
     THEN /\ ret' = [kind |-> "UB", val |-> 0]
          /\ stopped' = TRUE
          /\ UNCHANGED it
     ELSE /\ ret' = Some(map[it.next].elem)
          /\ it' = [it EXCEPT !.next = map[it.next].next,
                               !.yielded = Append(it.yielded, map[it.next].elem)]
          /\ UNCHANGED stopped
  /\ UNCHANGED <<deq, map, overflow_checks, hist>>

\* The Iter goes out of scope: the borrow of the index map ends.
DoIterDrop(q) ==
  /\ ~stopped
  /\ it.active
  /\ it' = [NoIter EXCEPT !.prev = it.prev, !.full = it.full]
  /\ op' = Call("drop_iter", q, 0, 0)
  /\ ret' = Unit
  /\ UNCHANGED <<deq, map, stopped, overflow_checks, hist>>

\* One deque with exclusive use of its index map.
Next ==
  \/ DoPushBack(1)
  \/ DoPushFront(1)
  \/ DoPushToBack(1)
  \/ DoPushToFront(1)
  \/ DoPopFrontUnchecked(1)
  \/ DoPopBackUnchecked(1)
  \/ DoPopFront(1)
  \/ DoPopBack(1)
  \/ DoRemove(1)
  \/ DoTryRemove(1)
  \/ DoClear(1)

Spec == Init /\ [][Next]_vars

\* Two deques sharing one index map, every call within its precondition.
NextShared ==
  \E q \in Deques :
    \/ DoPushBack(q)
    \/ DoPushFront(q)
    \/ DoPushToBack(q)
    \/ DoPushToFront(q)
    \/ DoPopFrontUnchecked(q)
    \/ DoPopBackUnchecked(q)
    \/ DoPopFront(q)
    \/ DoPopBack(q)
    \/ DoRemove(q)
    \/ DoTryRemove(q)
    \/ DoClear(q)

SpecShared == Init /\ [][NextShared]_vars

\* Two deques sharing one index map, where a caller may hand try_remove a
\* handle of the other deque.
NextAlias ==
  \/ NextShared
  \/ \E q \in Deques : DoTryRemoveForeign(q)

SpecAlias == Init /\ [][NextAlias]_vars

\* One deque whose caller also iterates over it.
NextIter ==
  \/ Next
  \/ DoIter(1)
  \/ DoIterNext(1)
  \/ DoIterDrop(1)

SpecIter == Init /\ [][NextIter]_vars

\* The same, with a caller that drives an Iter it holds: it goes on calling
\* next() until it gets None or lets go of the Iter.
SpecIterFair == SpecIter /\ WF_vars(DoIterNext(1))

\* One deque whose caller may call the unchecked pops on an empty deque.
NextUnchecked ==
  \/ Next
  \/ DoPopFrontUncheckedEmpty(1)
  \/ DoPopBackUncheckedEmpty(1)

SpecUnchecked == Init /\ [][NextUnchecked]_vars

\* One deque, with the history of the handles.
SpecHist == InitHist /\ [][Next]_vars

----------------------------------------------------------------------------
\* Structural conditions of one deque

\* The mirror walk: pre links from `last`.
RECURSIVE walk_pre(_, _, _)
walk_pre(m, h, fuel) ==
  IF h = 0 \/ fuel = 0 \/ ~contains(m, h) THEN <<>>
  ELSE <<h>> \o walk_pre(m, m[h].pre, fuel - 1)

Reverse(s) == [k \in 1..Len(s) |-> s[Len(s) + 1 - k]]

Range(s) == {s[k] : k \in 1..Len(s)}

\* The handles of deque d, front to back / back to front.
Fwd(d, m) == iter(d, m)
Bwd(d, m) == walk_pre(m, d.last, MaxHandle + 1)

\* The elements iter() yields.
Elements(d, m) == [k \in 1..Len(Fwd(d, m)) |-> m[Fwd(d, m)[k]].elem]

TypeOK ==
  /\ deq \in [Deques -> [first : 0..MaxHandle, last : 0..MaxHandle, len : 0..(UsizeMod - 1)]]
  /\ map \in [Handles -> [live : BOOLEAN, elem : Elems \cup {0}, pre : 0..MaxHandle, next : 0..MaxHandle]]
  /\ stopped \in BOOLEAN
  /\ overflow_checks \in BOOLEAN

NeverStopped == ~stopped

----------------------------------------------------------------------------
\* C1: for one deque with exclusive use of its index map, after any sequence
\* of calls within their preconditions, first == 0, last == 0 and len == 0
\* are all true or all false.
C1_EmptyAgree ==
  /\ (deq[1].first = 0) <=> (deq[1].last = 0)
  /\ (deq[1].last = 0) <=> (deq[1].len = 0)

\* A deque of two elements emptied by two pop_front_unchecked calls.
C1_Witness ==
  /\ op.name = "pop_front_unchecked"
  /\ Len(op.before) = 1
  /\ deq[1] = new
  /\ ret.kind = "Value"

\* C2: the next links from first visit exactly len nodes and end at last
\* (whose next is 0); the pre links from last visit the same handles in the
\* reverse order and end at first (whose pre is 0); consecutive handles a, b
\* of the forward walk have node(a).next == b and node(b).pre == a.
C2_WalksAgree ==
  LET d == deq[1]
      F == Fwd(d, map)
      B == Bwd(d, map)
  IN
  /\ Len(F) = d.len
  /\ Cardinality(Range(F)) = Len(F)
  /\ B = Reverse(F)
  /\ d.len > 0 =>
       /\ F[1] = d.first
       /\ F[Len(F)] = d.last
       /\ map[d.last].next = 0
       /\ map[d.first].pre = 0
  /\ \A k \in 1..(Len(F) - 1) :
       /\ map[F[k]].next = F[k + 1]
       /\ map[F[k + 1]].pre = F[k]

\* push_to_back has put a node between two nodes.
C2_Witness ==
  /\ op.name = "push_to_back"
  /\ Len(op.before) = 2
  /\ op.index = op.before[1]
  /\ ret.kind = "Handle"
  /\ Fwd(deq[1], map) = <<op.before[1], ret.val, op.before[2]>>

----------------------------------------------------------------------------
\* Sequences with one position deleted or inserted

RemoveAt(s, k) == [j \in 1..(Len(s) - 1) |-> IF j < k THEN s[j] ELSE s[j + 1]]

\* x put right after position k (k = 0: in front).
InsertAfter(s, k, x) ==
  [j \in 1..(Len(s) + 1) |-> IF j <= k THEN s[j] ELSE IF j = k + 1 THEN x ELSE s[j - 1]]

PosOf(s, h) == CHOOSE k \in 1..Len(s) : s[k] = h

----------------------------------------------------------------------------
\* C3: the deque refines a sequence S: iter() yields S and len() == |S|;
\* push_back(x) appends x, push_front(x) prepends x, pop_front() on a
\* non-empty S returns Some(first of S) and deletes it, pop_back() on a
\* non-empty S returns Some(last of S) and deletes it.
C3_RefinesSequence ==
  [][ LET S == Elements(deq[1], map)
          T == Elements(deq'[1], map')
      IN
      /\ len(deq[1]) = Len(S)
      /\ len(deq'[1]) = Len(T)
      /\ op'.name = "push_back" => T = Append(S, op'.elem)
      /\ op'.name = "push_front" => T = <<op'.elem>> \o S
      /\ (op'.name = "pop_front" /\ S # <<>>) =>
            /\ ret' = Some(Head(S))
            /\ T = Tail(S)
      /\ (op'.name = "pop_back" /\ S # <<>>) =>
            /\ ret' = Some(S[Len(S)])
            /\ T = SubSeq(S, 1, Len(S) - 1)
    ]_vars

\* pop_back has returned the last of three elements, which differs from the
\* two that stay.
C3_Witness ==
  /\ op.name = "pop_back"
  /\ Len(op.before) = 3
  /\ ret.kind = "Some"
  /\ Len(Elements(deq[1], map)) = 2
  /\ \A k \in 1..2 : Elements(deq[1], map)[k] # ret.val

\* C4: remove(h) of a member h returns the element stored at h, decrements
\* len by 1, deletes exactly that element from the sequence iter() yields;
\* first changes only if h was the head (to its successor or 0), last only
\* if h was the tail (to its predecessor or 0).
C4_RemoveMember ==
  [][ op'.name = "remove" =>
        LET d == deq[1]
            h == op'.index
            F == Fwd(d, map)
            k == PosOf(F, h)
        IN
        /\ h \in Range(F)
        /\ ret' = Value(map[h].elem)
        /\ deq'[1].len = d.len - 1
        /\ Fwd(deq'[1], map') = RemoveAt(F, k)
        /\ Elements(deq'[1], map') = RemoveAt(Elements(d, map), k)
        /\ deq'[1].first = IF h = d.first THEN map[h].next ELSE d.first
        /\ deq'[1].last = IF h = d.last THEN map[h].pre ELSE d.last
        /\ (h # d.first /\ h # d.last) =>
              (deq'[1].first = d.first /\ deq'[1].last = d.last)
    ]_vars

\* remove has taken the middle one of three nodes.
C4_Witness ==
  /\ op.name = "remove"
  /\ Len(op.before) = 3
  /\ op.index = op.before[2]
  /\ ret.kind = "Value"
  /\ Fwd(deq[1], map) = <<op.before[1], op.before[3]>>
  /\ deq[1].len = 2

\* C5: on an empty deque pop_front() and pop_back() return None and leave
\* first, last, len and the index map unchanged.
C5_PopEmpty ==
  [][ (op'.name \in {"pop_front", "pop_back"} /\ deq[op'.q].len = 0) =>
        /\ ret' = None
        /\ deq' = deq
        /\ map' = map
        /\ len(deq'[op'.q]) = 0
    ]_vars

\* pop_front / pop_back has returned None on an empty deque, while the other
\* deque holds nodes in the shared index map.
C5_Witness ==
  /\ op.name \in {"pop_front", "pop_back"}
  /\ ret = None
  /\ op.before = <<>>
  /\ deq[op.q] = new
  /\ \E q \in Deques : deq[q].len > 0

----------------------------------------------------------------------------
\* C6: try_remove(h) of a handle h that the index map does not contain
\* (0, never issued, or removed and not reissued) returns None and leaves
\* first, last, len of every deque and every node of the index map unchanged.
C6_TryRemoveUnknown ==
  [][ (op'.name = "try_remove" /\ ~contains(map, op'.index)) =>
        /\ ret' = None
        /\ deq' = deq
        /\ map' = map
    ]_vars

\* try_remove of a vacant non-zero handle on a deque that holds nodes.
C6_Witness ==
  /\ op.name = "try_remove"
  /\ op.index # 0
  /\ ~contains(map, op.index)
  /\ ret = None
  /\ op.before # <<>>
  /\ Fwd(deq[op.q], map) = op.before

\* n consecutive pop_front() calls.
RECURSIVE pop_front_times(_, _, _)
pop_front_times(self, m, n) ==
  IF n = 0 THEN Result(self, m, Unit)
  ELSE LET r == pop_front(self, m) IN pop_front_times(r.self, r.map, n - 1)

\* C7: from a state with len == N, clear() ends in the same state as N
\* pop_front() calls: first == last == 0, len == 0, no member of the deque
\* is live any more, and every node that was not a member is unchanged.
C7_ClearIsPops ==
  [][ op'.name = "clear" =>
        LET q == op'.q
            r == pop_front_times(deq[q], map, deq[q].len)
        IN
        /\ deq'[q] = r.self
        /\ map' = r.map
        /\ deq'[q] = new
        /\ \A h \in Members(q) : ~contains(map', h)
        /\ \A h \in Handles \ Members(q) : map'[h] = map[h]
        /\ \A p \in Deques \ {q} : deq'[p] = deq[p]
    ]_vars

\* clear of a deque of two, next to a deque that keeps its node.
C7_Witness ==
  /\ op.name = "clear"
  /\ Len(op.before) = 2
  /\ deq[op.q] = new
  /\ \A h \in Range(op.before) : ~contains(map, h)
  /\ \E p \in Deques \ {op.q} : deq[p].len = 1

----------------------------------------------------------------------------
\* Every handle a deque can reach: first, last, and the links of the nodes
\* on its walks.
ReachSet(d, m) ==
  ({d.first, d.last}
     \cup {m[h].next : h \in Range(Fwd(d, m))}
     \cup {m[h].pre : h \in Range(Bwd(d, m))}) \ {0}

\* Every reachable handle is live and no handle is reachable from two deques.
NoAliasing(ds, m) ==
  /\ \A q \in Deques : ReachSet(ds[q], m) \subseteq Live(m)
  /\ \A p, q \in Deques : p # q => ReachSet(ds[p], m) \cap ReachSet(ds[q], m) = {}

\* C8: with two deques sharing one index map and every call within its
\* precondition, every handle reachable from a deque's first or last is live
\* and reachable from exactly one deque, and a call on one deque leaves the
\* other deque's first, last, len and nodes unchanged.
C8_SharedMapIsolation ==
  /\ []NoAliasing(deq, map)
  /\ [][ \A p \in Deques \ {op'.q} :
           /\ deq'[p] = deq[p]
           /\ \A h \in Members(p) : map'[h] = map[h]
       ]_vars

\* pop_back_unchecked on a deque of two, while the other deque holds a node.
C8_Witness ==
  /\ op.name = "pop_back_unchecked"
  /\ Len(op.before) = 2
  /\ deq[op.q].len = 1
  /\ \E p \in Deques \ {op.q} : deq[p].len = 1

----------------------------------------------------------------------------
\* The structural invariants of one deque.
StructOK(d, m) ==
  /\ (d.first = 0) <=> (d.last = 0)
  /\ (d.last = 0) <=> (d.len = 0)
  /\ d.len = Len(Fwd(d, m))
  /\ ReachSet(d, m) \subseteq Live(m)

\* C9 as stated: A.try_remove(h) for a live handle h of B returns
\* Some(B's element) and leaves at least one deque structurally corrupt.
C9_ForeignReturnsSome ==
  [][ op'.name = "try_remove_foreign" =>
        /\ ret' = Some(map[op'.index].elem)
        /\ \E p \in Deques : ~StructOK(deq'[p], map')
    ]_vars

\* C9 (amended): A.try_remove(h) for a live handle h of B passes the
\* liveness check, removes B's node from the index map and never returns
\* None: it returns Some(B's element), except that in a build with overflow
\* checks and with A.len == 0 the trailing `self.len -= 1` panics; in both
\* cases at least one deque is structurally corrupt afterwards.
C9_ForeignCorrupts ==
  [][ op'.name = "try_remove_foreign" =>
        /\ ret' # None
        /\ IF overflow_checks /\ deq[op'.q].len = 0
           THEN ret'.kind = "Panic"
           ELSE ret' = Some(map[op'.index].elem)
        /\ ~contains(map', op'.index)
        /\ \E p \in Deques : ~StructOK(deq'[p], map')
    ]_vars

\* A, holding a node, has removed a node of B and returned its element.
C9_Witness ==
  /\ op.name = "try_remove_foreign"
  /\ ret.kind = "Some"
  /\ op.before # <<>>
  /\ op.index \notin Range(op.before)
  /\ ~contains(map, op.index)

----------------------------------------------------------------------------
\* C10: push_to_back(x, a) with a member a returns a new handle i, x directly
\* follows a's element in iter() and the other elements keep their order, len
\* grows by 1, last becomes i iff a was the tail, first is unchanged.
C10_PushToBack ==
  [][ op'.name = "push_to_back" =>
        LET d == deq[1]
            a == op'.index
            F == Fwd(d, map)
            k == PosOf(F, a)
            i == ret'.val
        IN
        /\ a \in Range(F)
        /\ ret'.kind = "Handle"
        /\ i # 0 /\ ~contains(map, i) /\ contains(map', i)
        /\ Fwd(deq'[1], map') = InsertAfter(F, k, i)
        /\ Elements(deq'[1], map') = InsertAfter(Elements(d, map), k, op'.elem)
        /\ deq'[1].len = d.len + 1
        /\ deq'[1].last = (IF a = d.last THEN i ELSE d.last)
        /\ (deq'[1].last = i) <=> (a = d.last)
        /\ deq'[1].first = d.first
    ]_vars

\* push_to_back after the tail of a deque of two.
C10_Witness ==
  /\ op.name = "push_to_back"
  /\ Len(op.before) = 2
  /\ op.index = op.before[2]
  /\ ret.kind = "Handle"
  /\ deq[1].last = ret.val
  /\ Fwd(deq[1], map) = Append(op.before, ret.val)

----------------------------------------------------------------------------
\* C11: push_to_front(x, a) with a member a returns a new handle i, x
\* directly precedes a's element in iter() and the other elements keep their
\* order, len grows by 1, first becomes i iff a was the head, last is
\* unchanged.
C11_PushToFront ==
  [][ op'.name = "push_to_front" =>
        LET d == deq[1]
            a == op'.index
            F == Fwd(d, map)
            k == PosOf(F, a)
            i == ret'.val
        IN
        /\ a \in Range(F)
        /\ ret'.kind = "Handle"
        /\ i # 0 /\ ~contains(map, i) /\ contains(map', i)
        /\ Fwd(deq'[1], map') = InsertAfter(F, k - 1, i)
        /\ Elements(deq'[1], map') = InsertAfter(Elements(d, map), k - 1, op'.elem)
        /\ deq'[1].len = d.len + 1
        /\ deq'[1].first = (IF a = d.first THEN i ELSE d.first)
        /\ (deq'[1].first = i) <=> (a = d.first)
        /\ deq'[1].last = d.last
    ]_vars

\* push_to_front before the head of a deque of two.
C11_Witness ==
  /\ op.name = "push_to_front"
  /\ Len(op.before) = 2
  /\ op.index = op.before[1]
  /\ ret.kind = "Handle"
  /\ deq[1].first = ret.val
  /\ Fwd(deq[1], map) = <<ret.val>> \o op.before

\* C12: push_back(x) returns a handle h != 0 that was not live; afterwards
\* get_last() == h, node(h).next == 0, node(h).pre is the previous last,
\* first is h if the deque was empty and unchanged otherwise.  push_front(x)
\* is the mirror image.  Both add exactly 1 to len.
C12_PushEnds ==
  [][ LET d == deq[1]
          e == deq'[1]
          h == ret'.val
      IN
      /\ op'.name = "push_back" =>
           /\ ret'.kind = "Handle"
           /\ h # 0 /\ ~contains(map, h) /\ contains(map', h)
           /\ map'[h].elem = op'.elem
           /\ get_last(e) = h
           /\ map'[h].next = 0
           /\ map'[h].pre = d.last
           /\ get_first(e) = (IF d.len = 0 THEN h ELSE d.first)
           /\ len(e) = len(d) + 1
      /\ op'.name = "push_front" =>
           /\ ret'.kind = "Handle"
           /\ h # 0 /\ ~contains(map, h) /\ contains(map', h)
           /\ map'[h].elem = op'.elem
           /\ get_first(e) = h
           /\ map'[h].pre = 0
           /\ map'[h].next = d.first
           /\ get_last(e) = (IF d.len = 0 THEN h ELSE d.last)
           /\ len(e) = len(d) + 1
    ]_vars

\* push_back onto a deque of two.
C12_Witness ==
  /\ op.name = "push_back"
  /\ Len(op.before) = 2
  /\ ret.kind = "Handle"
  /\ get_last(deq[1]) = ret.val
  /\ map[ret.val].pre = op.before[2]
  /\ get_first(deq[1]) = op.before[1]

----------------------------------------------------------------------------
Pushes == {"push_back", "push_front", "push_to_back", "push_to_front"}

Removals == {"pop_front", "pop_back", "pop_front_unchecked", "pop_back_unchecked",
             "remove", "try_remove"}

\* C13: every push leads to len >= 1; a pop_front, pop_back, remove or
\* successful try_remove changes len from n to n-1; the deque passes from
\* NonEmpty to Empty only from len == 1 or by clear(); a call that returns
\* None leaves len unchanged (and only a push leaves Empty).
C13_TwoStates ==
  [][ LET n == len(deq[1])
          n2 == len(deq'[1])
      IN
      /\ op'.name \in Pushes => (n2 >= 1 /\ n2 = n + 1)
      /\ (op'.name \in Removals /\ ret'.kind \in {"Some", "Value"}) =>
            (n >= 1 /\ n2 = n - 1)
      /\ (n > 0 /\ n2 = 0) => (n = 1 \/ op'.name = "clear")
      /\ ret' = None => n2 = n
      /\ (n = 0 /\ n2 > 0) => op'.name \in Pushes
    ]_vars

\* try_remove has taken the only element: NonEmpty to Empty from len == 1.
C13_Witness ==
  /\ op.name = "try_remove"
  /\ ret.kind = "Some"
  /\ Len(op.before) = 1
  /\ len(deq[1]) = 0

----------------------------------------------------------------------------
IterCalls == {"iter", "next", "drop_iter"}

\* C14: iter() and Iter::next change neither first, last, len nor any node;
\* a fresh iter() starts at first; an Iter driven to exhaustion has yielded
\* the elements of the deque in order, and two successive full iterations of
\* an unmodified deque yield the same sequence.
C14_IterReadOnly ==
  [][ /\ op'.name \in IterCalls => (deq' = deq /\ map' = map)
      /\ op'.name = "iter" => (it'.next = get_first(deq[1]) /\ it'.yielded = <<>>)
      /\ (op'.name = "next" /\ ret' = None) =>
            /\ it.yielded = Elements(deq[1], map)
            /\ it.full >= 1 => it.yielded = it.prev
    ]_vars

\* The second full iteration of a deque of two different elements.
C14_Witness ==
  /\ op.name = "next"
  /\ ret = None
  /\ it.full = 2
  /\ Len(it.yielded) = 2
  /\ it.yielded[1] # it.yielded[2]
  /\ it.yielded = it.prev

\* The next links from first end at 0 without passing a handle twice.
NoCycle ==
  LET F == Fwd(deq[1], map) IN
  /\ Cardinality(Range(F)) = Len(F)
  /\ Len(F) <= MaxHandle
  /\ F # <<>> => map[F[Len(F)]].next = 0
  /\ F = <<>> => deq[1].first = 0

\* C15: every operation terminates: clear() returns after exactly len
\* removals from the index map, and an Iter returns None after yielding
\* exactly len elements (it is exhausted in the end, the next links never
\* form a cycle).
C15_Terminates ==
  /\ []NoCycle
  /\ [][ /\ op'.name = "clear" =>
              /\ ret' = Unit
              /\ Cardinality(Live(map)) - Cardinality(Live(map')) = len(deq[1])
         /\ op'.name = "next" =>
              /\ ret'.kind \in {"Some", "None"}
              /\ Len(it.yielded) <= len(deq[1])
              /\ (ret' = None) <=> (Len(it.yielded) = len(deq[1]))
              /\ ret'.kind = "Some" => Len(it'.yielded) = Len(it.yielded) + 1
       ]_vars
  /\ (it.active /\ ~it.done) ~> (it.done \/ ~it.active)

\* An Iter over three elements has returned None.
C15_Witness ==
  /\ op.name = "next"
  /\ ret = None
  /\ it.done
  /\ Len(it.yielded) = 3
  /\ len(deq[1]) = 3

----------------------------------------------------------------------------
UncheckedOnEmpty == {"pop_front_unchecked_empty", "pop_back_unchecked_empty"}

\* C16 as stated: when pop_front_unchecked or pop_back_unchecked is called on
\* an empty deque, the outcome is the index map's reaction to remove(0): the
\* deque's own bookkeeping neither faults nor wraps len before the index map
\* is asked.
C16_MapDecides ==
  [][ op'.name \in UncheckedOnEmpty =>
        /\ ret'.kind = "MapFault"
        /\ len(deq'[1]) = 0
    ]_vars

\* C16 (amended): on an empty deque `self.len -= 1` comes first.  A build
\* with overflow checks panics there and the index map is never asked; a
\* build without them wraps len to 2^w - 1 and only then asks the index map
\* to remove handle 0.  first, last and the nodes are not written before.
C16_LenFirst ==
  [][ op'.name \in UncheckedOnEmpty =>
        /\ deq[1] = new
        /\ map' = map
        /\ IF overflow_checks
           THEN ret'.kind = "Panic" /\ deq'[1] = new
           ELSE ret'.kind = "MapFault" /\ deq'[1] = [new EXCEPT !.len = UsizeMod - 1]
    ]_vars

\* A wrapping build has reached index_map.remove(0) with len wrapped.
C16_Witness ==
  /\ op.name = "pop_back_unchecked_empty"
  /\ ~overflow_checks
  /\ ret.kind = "MapFault"
  /\ deq[1] = [new EXCEPT !.len = UsizeMod - 1]

----------------------------------------------------------------------------
\* The handles of s that are in the set K, in the order of s.
Restrict(s, K) == SelectSeq(s, LAMBDA h : h \in K)

\* C17: handles are stable: a node that is a member before and after a call
\* keeps its handle, its element and its place among the other survivors; an
\* insertion writes at most the next field of the new node's predecessor and
\* the pre field of its successor; a pop/remove writes at most the next field
\* of the removed node's predecessor and the pre field of its successor; no
\* other node is written.
C17_Frame ==
  [][ LET Kept == Live(map) \cap Live(map')
          Issued == Live(map') \ Live(map)
          Removed == Live(map) \ Live(map')
          Changed == {h \in Kept : map'[h] # map[h]}
      IN
      /\ \A h \in Kept : map'[h].elem = map[h].elem
      /\ Restrict(Fwd(deq'[1], map'), Kept) = Restrict(Fwd(deq[1], map), Kept)
      /\ op'.name \in Pushes =>
           /\ Removed = {}
           /\ Issued = {ret'.val}
           /\ Changed \subseteq {map'[ret'.val].pre, map'[ret'.val].next}
           /\ \A h \in Changed :
                /\ h = map'[ret'.val].pre => map'[h].pre = map[h].pre
                /\ h = map'[ret'.val].next => map'[h].next = map[h].next
      /\ (op'.name \in Removals /\ ret'.kind \in {"Some", "Value"}) =>
           /\ Issued = {}
           /\ Cardinality(Removed) = 1
           /\ \A r \in Removed :
                /\ Changed \subseteq {map[r].pre, map[r].next}
                /\ \A h \in Changed :
                     /\ h = map[r].pre => map'[h].pre = map[h].pre
                     /\ h = map[r].next => map'[h].next = map[h].next
      /\ op'.name = "clear" => (Issued = {} /\ Changed = {})
      /\ ret' = None => map' = map
    ]_vars

\* try_remove has taken the middle one of three nodes: both neighbours are
\* rewritten and keep their handles and elements.
C17_Witness ==
  /\ op.name = "try_remove"
  /\ ret.kind = "Some"
  /\ Len(op.before) = 3
  /\ op.index = op.before[2]
  /\ map[op.before[1]].next = op.before[3]
  /\ map[op.before[3]].pre = op.before[1]
  /\ Fwd(deq[1], map) = <<op.before[1], op.before[3]>>

----------------------------------------------------------------------------
\* C18: for one deque with exclusive use of its index map, the handles live
\* in the index map are exactly the handles reachable from first via next
\* (so there are len of them), and no live node's pre or next holds a
\* non-zero handle that is not live.
C18_NoLeakNoDangling ==
  /\ Live(map) = Members(1)
  /\ Cardinality(Live(map)) = len(deq[1])
  /\ \A h \in Live(map) :
       /\ map[h].pre \in Live(map) \cup {0}
       /\ map[h].next \in Live(map) \cup {0}

\* clear of a deque of three has left the index map empty.
C18_Witness ==
  /\ op.name = "clear"
  /\ Len(op.before) = 3
  /\ Live(map) = {}
  /\ deq[1] = new

\* C19: handles carry no generation tag: if h was issued by a push, removed,
\* and issued again for a later push of y, try_remove(h) returns Some(y) and
\* removes the newer element; the structural invariants still hold afterwards.
C19_StaleHandleAccepted ==
  [][ (op'.name = "try_remove" /\ op'.index = hist.stale /\ hist.reissued
         /\ contains(map, op'.index)) =>
        /\ ret' = Some(hist.y)
        /\ ret' = Some(map[op'.index].elem)
        /\ ~contains(map', op'.index)
        /\ Fwd(deq'[1], map') = RemoveAt(Fwd(deq[1], map), PosOf(Fwd(deq[1], map), op'.index))
        /\ StructOK(deq'[1], map')
        /\ C2_WalksAgree'
    ]_vars

\* try_remove, out of a deque of three, of a handle that had been removed
\* and issued again.
C19_Witness ==
  /\ op.name = "try_remove"
  /\ hist.on
  /\ ret.kind = "Some"
  /\ Len(op.before) = 3
  /\ op.index \in Range(op.before)
  /\ hist.stale = op.index
  /\ hist.reissued
  /\ ret.val = hist.y
  /\ hist.x # hist.y

====
